---- MODULE Spec2Model ----
(***************************************************************************)
(* The account slice of the wallet's redux store                           *)
(* (background/redux-slices/accounts): the reducers loadAccount,           *)
(* deleteAccount, updateAccountBalance, updateAccountName and              *)
(* updateENSAvatar, the module-level pool availableDefaultNames, and the   *)
(* identity generation of newAccountData; and the ERC-20 log parser        *)
(* parseLogsForERC20Transfers (lib/erc20).                                 *)
(*                                                                         *)
(* JavaScript objects used as dictionaries (accountsData, balances, the    *)
(* accumulator of the combined-balance fold) keep their string keys in     *)
(* insertion order; they are modelled as sequences of [key, value]         *)
(* entries with at most one entry per key.                                 *)
(***************************************************************************)
EXTENDS Integers, Sequences, FiniteSets, TLC

VARIABLES
    accountsData,           \* state.accountsData: address -> AccountData | "loading"
    combinedData,           \* state.combinedData
    availableDefaultNames,  \* the module-level pool of default names
    last,                   \* the action reduced last, with what it found
    deletedWhileLoading,    \* keys deleted in the "loading" state and not loaded since
    dispatched,             \* the number of actions reduced so far
    logs,                   \* the EVM logs handed to parseLogsForERC20Transfers
    transfers,              \* what parseLogsForERC20Transfers returned for them
    input,                  \* the call data handed to parseERC20Tx
    description,            \* what parseERC20Tx returned for it
    keyringsState,          \* the state of the keyrings slice
    selectedAccount,        \* ui.selectedAccount.address
    service,                \* the keyring service: locked or not, and its keyrings
    inFlight,               \* actions the service has emitted and the store not yet reduced
    thunks,                 \* the importKeyring thunks dispatched, each with its position
    lockSnapshot,           \* keyrings and keyringMetadata of the slice when the service locked
    lastKeyringEvent,       \* what happened last in the keyrings slice
    sendForm,               \* Send view: assetAmount and destinationAddress of the render
    isSendingTransactionRequest, \* Send view: the state of that name
    location,               \* Send view: the path history is at
    calls,                  \* Send view: the calls of sendTransactionRequest, each with its position
    pendingSelectedAddress, \* accounts panel: the state of that name
    selectedAccountAddress, \* accounts panel: selectCurrentAccount(state).address
    selecting,              \* accounts panel: setNewSelectedAccount dispatched, not yet adopted
    effectDue,              \* accounts panel: a dependency of the effect changed since it ran
    selections,             \* accounts panel: the calls of updateCurrentAccount, each with the
                            \* number of earlier selections the store had not adopted yet
    callbacks               \* accounts panel: the calls of onCurrentAddressChange

storeVars == <<accountsData, combinedData, availableDefaultNames, last,
               deletedWhileLoading, dispatched>>
logVars == <<logs, transfers>>
callVars == <<input, description>>
keyringVars == <<keyringsState, selectedAccount, service, inFlight, thunks,
                 lockSnapshot, lastKeyringEvent>>
sendVars == <<sendForm, isSendingTransactionRequest, location, calls>>
panelVars == <<pendingSelectedAddress, selectedAccountAddress, selecting,
               effectDue, selections, callbacks>>

vars == <<storeVars, logVars, callVars, keyringVars, sendVars, panelVars>>

\* What a step of one component leaves alone: the variables of the others.
exceptStore == <<logVars, callVars, keyringVars, sendVars, panelVars>>
exceptLogs == <<storeVars, callVars, keyringVars, sendVars, panelVars>>
exceptCall == <<storeVars, logVars, keyringVars, sendVars, panelVars>>
exceptKeyrings == <<storeVars, logVars, callVars, sendVars, panelVars>>
exceptSend == <<storeVars, logVars, callVars, keyringVars, panelVars>>
exceptPanel == <<storeVars, logVars, callVars, keyringVars, sendVars>>

----------------------------------------------------------------------------
(* Bounds of the model. *)

MaxBatch == 2       \* longest updateAccountBalance payload
MaxAmount == 2      \* asset amounts are 1..MaxAmount
MaxOps == 4         \* actions dispatched in one run
MaxCreations == 3   \* direct newAccountData calls in one run
MaxExisting == 9    \* largest existingAccountsCount passed directly to newAccountData
MaxRecords == 9     \* records created one after another in one run
MaxLogs == 2        \* longest list of logs parsed in one call
MaxWords == 7       \* most argument words in the call data handed to parseERC20Tx
MaxImports == 2     \* importKeyring thunks dispatched in one run
MaxLocks == 1       \* times the keyring service locks in one run
MaxSends == 3       \* calls of sendTransactionRequest in one run
MaxSelections == 3  \* calls of updateCurrentAccount in one run
WordLen == 3        \* bytes of an ABI word (32 in the EVM)
AddrLen == 2        \* bytes of an address (20 in the EVM)

----------------------------------------------------------------------------
(* Addresses: the hex digits after the "0x" prefix, one character each. *)

LowerHex == <<"0", "1", "2", "3", "4", "5", "6", "7", "8", "9",
              "a", "b", "c", "d", "e", "f">>

toLowerCaseChar(c) ==
    CASE c = "A" -> "a" [] c = "B" -> "b" [] c = "C" -> "c"
      [] c = "D" -> "d" [] c = "E" -> "e" [] c = "F" -> "f"
      [] OTHER -> c

\* String.prototype.toLowerCase on a hex string.
toLowerCase(s) == [i \in 1..Len(s) |-> toLowerCaseChar(s[i])]

\* The canonical lowercase form used as the key of accountsData.
normalizeEVMAddress(address) == toLowerCase(address)

HexVal(c) == (CHOOSE i \in 1..16 : LowerHex[i] = toLowerCaseChar(c)) - 1

\* Whether BigInt("0x...") accepts the string: at least one digit, hex digits
\* only.  On any other string it throws a SyntaxError.
IsHexString(address) ==
    /\ address # <<>>
    /\ \A i \in 1..Len(address) :
           \E j \in 1..16 : LowerHex[j] = toLowerCaseChar(address[i])

\* BigInt("0x..."): the address read as an unsigned integer.
RECURSIVE BigInt(_)
BigInt(address) ==
    IF address = <<>> THEN 0
    ELSE 16 * BigInt(SubSeq(address, 1, Len(address) - 1))
         + HexVal(address[Len(address)])

\* The addresses payloads are drawn from: 0x2a in both letter cases, 0x1d.
AddrInputs == {<<"2", "a">>, <<"2", "A">>, <<"1", "d">>}

AddrKeys == {normalizeEVMAddress(a) : a \in AddrInputs}

Networks == {"ethereum"}
Symbols == {"ETH", "DAI"}
Amounts == 1..MaxAmount
DomainNames == {"tally.eth"}
AvatarURIs == {"ipfs://avatar"}

----------------------------------------------------------------------------
(* Insertion-ordered dictionaries. *)

Keys(obj) == {obj[i].key : i \in 1..Len(obj)}

Has(obj, k) == k \in Keys(obj)

IndexOf(obj, k) == CHOOSE i \in 1..Len(obj) : obj[i].key = k

\* What reading a missing key gives.
Undefined == [sentinel |-> "undefined"]

\* obj[k]
Get(obj, k) == IF Has(obj, k) THEN obj[IndexOf(obj, k)].value ELSE Undefined

\* obj[k] = v, or { ...obj, [k]: v }: an existing key keeps its place, a new
\* key goes last.
Put(obj, k, v) ==
    IF Has(obj, k)
    THEN [obj EXCEPT ![IndexOf(obj, k)] = [key |-> k, value |-> v]]
    ELSE Append(obj, [key |-> k, value |-> v])

\* const { [k]: _, ...rest } = obj
Without(obj, k) == SelectSeq(obj, LAMBDA e : e.key # k)

\* Object.values(obj)
Values(obj) == [i \in 1..Len(obj) |-> obj[i].value]

----------------------------------------------------------------------------
(* The default-name pool and identity generation. *)

InitialDefaultNames ==
    <<"Phoenix", "Matilda", "Sirius", "Topa", "Atos", "Sport", "Lola", "Foz">>

LowerNames ==
    <<"phoenix", "matilda", "sirius", "topa", "atos", "sport", "lola", "foz">>

\* defaultAccountName.toLowerCase()
nameToLowerCase(name) ==
    LowerNames[CHOOSE i \in 1..Len(InitialDefaultNames) : InitialDefaultNames[i] = name]

\* `./images/avatars/${defaultAccountName.toLowerCase()}@2x.png`
AvatarPath(name) == <<"./images/avatars/", nameToLowerCase(name), "@2x.png">>

\* Faulty variant: the index taken from the address alone, skipping no used names.
defaultNameIndexNoSkip(names, address, existingAccountsCount) ==
    BigInt(address) % Len(names)

\* Faulty variant: the count of existing accounts not reduced modulo the pool size.
defaultNameIndexNoWrap(names, address, existingAccountsCount) ==
    existingAccountsCount
    + (BigInt(address) % (Len(names) - (existingAccountsCount % Len(names))))

\* The index into availableDefaultNames (0-based, as in the source).
defaultNameIndex(names, address, existingAccountsCount) ==
    (existingAccountsCount % Len(names))
    + (BigInt(address) % (Len(names) - (existingAccountsCount % Len(names))))

\* availableDefaultNames[i], i 0-based: undefined past the end of the array.
NameAt(names, i) == IF i < Len(names) THEN names[i + 1] ELSE Undefined

\* Faulty variant: the name put in front without being removed from its place.
SpliceUnshiftKeepsCopy(names, i) == <<names[i + 1]>> \o names

\* Faulty variant: the pool left in the order it had.
SpliceUnshiftKeepsOrder(names, i) == names

\* Array.prototype.splice(i, 1) followed by unshift(x), i 0-based: past the
\* end of the array splice removes nothing.
SpliceUnshift(names, i) ==
    IF i < Len(names)
    THEN <<names[i + 1]>> \o SubSeq(names, 1, i) \o SubSeq(names, i + 2, Len(names))
    ELSE <<NameAt(names, i)>> \o names

\* newAccountData: the record it returns and the pool it leaves behind, or
\* threw: BigInt(address) throws on a string that is no number (before the
\* pool is touched), and defaultAccountName.toLowerCase() throws on an
\* undefined name (after the pool was rearranged).
newAccountData(names, address, network, existingAccountsCount) ==
    IF ~IsHexString(address)
    THEN [data |-> Undefined, names |-> names, threw |-> TRUE]
    ELSE LET i == defaultNameIndex(names, address, existingAccountsCount)
             defaultAccountName == NameAt(names, i)
         IN  IF i >= Len(names)   \* defaultAccountName is undefined
             THEN [data |-> Undefined, names |-> SpliceUnshift(names, i),
                   threw |-> TRUE]
             ELSE [data |-> [address |-> address,
                             network |-> network,
                             balances |-> <<>>,
                             ens |-> <<>>,
                             defaultName |-> defaultAccountName,
                             defaultAvatar |-> AvatarPath(defaultAccountName)],
                   names |-> SpliceUnshift(names, i),
                   threw |-> FALSE]

----------------------------------------------------------------------------
(* The slice state.  A reducer is an operator from the store state and the  *)
(* pool (s.accountsData, s.combinedData, s.names) and a payload to the      *)
(* state and pool it leaves.  A reducer that throws leaves the store as it  *)
(* was (its draft is dropped) and the pool as rearranged so far, with       *)
(* s.threw set.                                                             *)

\* The "loading" sentinel of AccountData | "loading".
Loading == [sentinel |-> "loading"]

initialState ==
    [accountsData |-> <<>>,
     combinedData |-> [totalMainCurrencyValue |-> "", assets |-> <<>>]]

\* Object.keys(accountsData).filter((key) => key !== accountKey).length
OtherAccountsCount(accounts, accountKey) ==
    Cardinality(Keys(accounts) \ {accountKey})

\* Faulty variant: the account itself counted among the existing accounts.
getOrCreateAccountDataCountsSelf(names, data, account, network, existingAccountsCount) ==
    IF data = Loading \/ data = Undefined
    THEN newAccountData(names, account, network, existingAccountsCount + 1)
    ELSE [data |-> data, names |-> names, threw |-> FALSE]

getOrCreateAccountData(names, data, account, network, existingAccountsCount) ==
    IF data = Loading \/ data = Undefined
    THEN newAccountData(names, account, network, existingAccountsCount)
    ELSE [data |-> data, names |-> names, threw |-> FALSE]

\* Faulty variant: the entry set to "loading" without looking for an existing one.
loadAccountAlwaysLoading(s, accountToLoad) ==
    [s EXCEPT !.accountsData = Put(@, normalizeEVMAddress(accountToLoad), Loading)]

\* Faulty variant: the entry stored under the address as given.
loadAccountRawKey(s, accountToLoad) ==
    IF Get(s.accountsData, normalizeEVMAddress(accountToLoad)) # Undefined
    THEN s
    ELSE [s EXCEPT !.accountsData = Put(@, accountToLoad, Loading)]

loadAccount(s, accountToLoad) ==
    LET accountKey == normalizeEVMAddress(accountToLoad)
    IN  IF Get(s.accountsData, accountKey) # Undefined
        THEN s
        ELSE [s EXCEPT !.accountsData = Put(@, accountKey, Loading)]

\* Faulty variant: the entry removed under the address as given, not under its key.
deleteAccountRawKey(s, accountToRemove) ==
    IF Get(s.accountsData, normalizeEVMAddress(accountToRemove)) = Undefined
    THEN s
    ELSE [s EXCEPT !.accountsData = Without(@, accountToRemove)]

deleteAccount(s, accountToRemove) ==
    LET keyToRemove == normalizeEVMAddress(accountToRemove)
    IN  IF Get(s.accountsData, normalizeEVMAddress(keyToRemove)) = Undefined
        THEN s
        ELSE [s EXCEPT !.accountsData = Without(@, keyToRemove)]

\* The record a balance update builds for a "loading" address.
CreatedByUpdate(s, updatedAccountBalance, balances) ==
    LET updatedAccountKey == normalizeEVMAddress(updatedAccountBalance.address)
        created == newAccountData(
                       s.names, updatedAccountKey, updatedAccountBalance.network,
                       OtherAccountsCount(s.accountsData, updatedAccountKey))
    IN  IF created.threw
        THEN [s EXCEPT !.names = created.names, !.threw = TRUE]
        ELSE [s EXCEPT
                !.accountsData =
                    Put(@, updatedAccountKey,
                        [created.data EXCEPT !.balances = balances]),
                !.names = created.names]

\* Faulty variant: a ready record rebuilt by newAccountData, as for "loading".
MergedByUpdateRegenerates(s, updatedAccountBalance, balances) ==
    LET updatedAccountKey == normalizeEVMAddress(updatedAccountBalance.address)
        created == newAccountData(
                       s.names, updatedAccountKey, updatedAccountBalance.network,
                       OtherAccountsCount(s.accountsData, updatedAccountKey))
    IN  [s EXCEPT
           !.accountsData =
               Put(@, updatedAccountKey, [created.data EXCEPT !.balances = balances]),
           !.names = created.names]

\* The state a balance update leaves for a ready record, balances given.
MergedByUpdate(s, updatedAccountBalance, balances) ==
    LET updatedAccountKey == normalizeEVMAddress(updatedAccountBalance.address)
    IN  [s EXCEPT !.accountsData =
            Put(@, updatedAccountKey,
                [Get(s.accountsData, updatedAccountKey) EXCEPT !.balances = balances])]

\* Faulty variant: an update for an untracked address creates a record, as for "loading".
applyBalanceUpdateCreatesMissing(s, updatedAccountBalance) ==
    LET symbol == updatedAccountBalance.assetAmount.asset.symbol
        existing == Get(s.accountsData, normalizeEVMAddress(updatedAccountBalance.address))
        only == <<[key |-> symbol, value |-> updatedAccountBalance]>>
    IN  IF existing # Undefined /\ existing # Loading
        THEN MergedByUpdate(s, updatedAccountBalance,
                            Put(existing.balances, symbol, updatedAccountBalance))
        ELSE CreatedByUpdate(s, updatedAccountBalance, only)

\* Faulty variant: the record created for a "loading" address is left without the balance.
applyBalanceUpdateDropsFirst(s, updatedAccountBalance) ==
    LET symbol == updatedAccountBalance.assetAmount.asset.symbol
        existing == Get(s.accountsData, normalizeEVMAddress(updatedAccountBalance.address))
    IN  IF existing = Undefined THEN s
        ELSE IF existing # Loading
        THEN MergedByUpdate(s, updatedAccountBalance,
                            Put(existing.balances, symbol, updatedAccountBalance))
        ELSE CreatedByUpdate(s, updatedAccountBalance, <<>>)

\* Faulty variant: the balances of a ready record replaced by the updated one alone.
applyBalanceUpdateReplacesBalances(s, updatedAccountBalance) ==
    LET symbol == updatedAccountBalance.assetAmount.asset.symbol
        existing == Get(s.accountsData, normalizeEVMAddress(updatedAccountBalance.address))
        only == <<[key |-> symbol, value |-> updatedAccountBalance]>>
    IN  IF existing = Undefined THEN s
        ELSE IF existing # Loading
        THEN MergedByUpdate(s, updatedAccountBalance, only)
        ELSE CreatedByUpdate(s, updatedAccountBalance, only)

\* The body of accountsWithBalances.forEach for one updatedAccountBalance.
applyBalanceUpdate(s, updatedAccountBalance) ==
    LET updatedAssetSymbol == updatedAccountBalance.assetAmount.asset.symbol
        updatedAccountKey == normalizeEVMAddress(updatedAccountBalance.address)
        existingAccountData == Get(s.accountsData, updatedAccountKey)
    IN  IF existingAccountData = Undefined
        THEN s
        ELSE IF existingAccountData # Loading
        THEN MergedByUpdate(s, updatedAccountBalance,
                            Put(existingAccountData.balances, updatedAssetSymbol,
                                updatedAccountBalance))
        ELSE CreatedByUpdate(s, updatedAccountBalance,
                             <<[key |-> updatedAssetSymbol,
                                value |-> updatedAccountBalance]>>)

\* accountsWithBalances.forEach(...)
RECURSIVE applyBalanceUpdates(_, _)
applyBalanceUpdates(s, accountsWithBalances) ==
    IF accountsWithBalances = <<>> \/ s.threw THEN s
    ELSE applyBalanceUpdates(applyBalanceUpdate(s, Head(accountsWithBalances)),
                             Tail(accountsWithBalances))

\* Object.values(ad.balances).map((ab) => ab.assetAmount)
AssetAmountsOf(ad) ==
    IF ad = Loading THEN <<>>
    ELSE [i \in 1..Len(ad.balances) |-> ad.balances[i].value.assetAmount]

\* Object.values(accountsData).flatMap(...).filter((b) => b)
RECURSIVE combinedAccountBalances(_)
combinedAccountBalances(accounts) ==
    IF accounts = <<>> THEN <<>>
    ELSE AssetAmountsOf(Head(accounts).value) \o combinedAccountBalances(Tail(accounts))

\* Faulty variant: every amount listed on its own, not grouped by symbol.
combineStepAppends(acc, combinedAssetAmount) ==
    Append(acc, [key |-> combinedAssetAmount.asset.symbol,
                 value |-> combinedAssetAmount])

\* Faulty variant: the amount of a symbol overwritten, not added to.
combineStepOverwrite(acc, combinedAssetAmount) ==
    Put(acc, combinedAssetAmount.asset.symbol, combinedAssetAmount)

\* One step of the reduce: acc[symbol] = { ...amount, amount: (acc[symbol]?.amount || 0n) + amount }
combineStep(acc, combinedAssetAmount) ==
    LET assetSymbol == combinedAssetAmount.asset.symbol
        sofar == IF Has(acc, assetSymbol) THEN Get(acc, assetSymbol).amount ELSE 0
    IN  Put(acc, assetSymbol,
            [combinedAssetAmount EXCEPT !.amount = sofar + combinedAssetAmount.amount])

RECURSIVE combineFrom(_, _)
combineFrom(acc, amounts) ==
    IF amounts = <<>> THEN acc
    ELSE combineFrom(combineStep(acc, Head(amounts)), Tail(amounts))

\* Object.values(combinedAccountBalances.reduce(..., {}))
combinedAssets(accounts) == Values(combineFrom(<<>>, combinedAccountBalances(accounts)))

updateAccountBalance(s, accountsWithBalances) ==
    LET t == applyBalanceUpdates(s, accountsWithBalances)
    IN  IF t.threw
        THEN [s EXCEPT !.names = t.names, !.threw = TRUE]
        ELSE [t EXCEPT !.combinedData.assets = combinedAssets(t.accountsData)]

\* Faulty variant: no early return for an address that has no entry.
updateAccountNameNoGuard(s, addressNetworkName) ==
    LET accountKey == normalizeEVMAddress(addressNetworkName.address)
        base == getOrCreateAccountData(
                    s.names, Get(s.accountsData, accountKey), accountKey,
                    addressNetworkName.network,
                    OtherAccountsCount(s.accountsData, accountKey))
    IN  [s EXCEPT
           !.accountsData =
               Put(@, accountKey,
                   [base.data EXCEPT !.ens = Put(@, "name", addressNetworkName.name)]),
           !.names = base.names]

updateAccountName(s, addressNetworkName) ==
    LET accountKey == normalizeEVMAddress(addressNetworkName.address)
    IN  IF Get(s.accountsData, accountKey) = Undefined
        THEN s
        ELSE LET base == getOrCreateAccountData(
                             s.names, Get(s.accountsData, accountKey), accountKey,
                             addressNetworkName.network,
                             OtherAccountsCount(s.accountsData, accountKey))
             IN  IF base.threw
                 THEN [s EXCEPT !.names = base.names, !.threw = TRUE]
                 ELSE [s EXCEPT
                         !.accountsData =
                             Put(@, accountKey,
                                 [base.data EXCEPT !.ens =
                                     Put(@, "name", addressNetworkName.name)]),
                         !.names = base.names]

\* Faulty variant: no early return for an address that has no entry.
updateENSAvatarNoGuard(s, addressNetworkAvatar) ==
    LET accountKey == normalizeEVMAddress(addressNetworkAvatar.address)
        base == getOrCreateAccountData(
                    s.names, Get(s.accountsData, accountKey), accountKey,
                    addressNetworkAvatar.network,
                    OtherAccountsCount(s.accountsData, accountKey))
    IN  [s EXCEPT
           !.accountsData =
               Put(@, accountKey,
                   [base.data EXCEPT !.ens = Put(@, "avatarURL", addressNetworkAvatar.avatar)]),
           !.names = base.names]

updateENSAvatar(s, addressNetworkAvatar) ==
    LET accountKey == normalizeEVMAddress(addressNetworkAvatar.address)
    IN  IF Get(s.accountsData, accountKey) = Undefined
        THEN s
        ELSE LET base == getOrCreateAccountData(
                             s.names, Get(s.accountsData, accountKey), accountKey,
                             addressNetworkAvatar.network,
                             OtherAccountsCount(s.accountsData, accountKey))
             IN  IF base.threw
                 THEN [s EXCEPT !.names = base.names, !.threw = TRUE]
                 ELSE [s EXCEPT
                         !.accountsData =
                             Put(@, accountKey,
                                 [base.data EXCEPT !.ens =
                                     Put(@, "avatarURL", addressNetworkAvatar.avatar)]),
                         !.names = base.names]

----------------------------------------------------------------------------
(* Payloads. *)

AccountBalances ==
    [address : AddrInputs, network : Networks,
     assetAmount : [asset : [symbol : Symbols], amount : Amounts]]

RECURSIVE SeqsUpTo(_, _)
SeqsUpTo(S, n) ==
    IF n = 0 THEN {<<>>}
    ELSE LET shorter == SeqsUpTo(S, n - 1)
         IN  shorter \cup {Append(q, x) : q \in shorter, x \in S}

Batches == SeqsUpTo(AccountBalances, MaxBatch)

NamePayloads == [address : AddrInputs, network : Networks, name : DomainNames]
AvatarPayloads == [address : AddrInputs, network : Networks, avatar : AvatarURIs]

----------------------------------------------------------------------------
(* The keyrings slice (background/redux-slices/keyrings).  A keyring is a   *)
(* record [id, addresses]; keyringMetadata maps keyring ids to their        *)
(* source and is modelled as the set of [id, source] pairs.                 *)

\* null
Null == [sentinel |-> "null"]

keyringsInitialState ==
    [keyrings |-> <<>>,
     keyringMetadata |-> {},
     importing |-> "false",
     status |-> "uninitialized",
     keyringToVerify |-> Null]

keyringLocked(state) == [state EXCEPT !.status = "locked"]

keyringUnlocked(state) == [state EXCEPT !.status = "unlocked"]

\* Faulty variant: an empty list taken over while the keyrings are locked.
updateKeyringsNoGuard(state, payload) ==
    [state EXCEPT !.keyrings = payload.keyrings,
                  !.keyringMetadata = payload.keyringMetadata]

updateKeyrings(state, payload) ==
    IF Len(payload.keyrings) = 0 /\ state.status = "locked"
    THEN state
    ELSE [state EXCEPT !.keyrings = payload.keyrings,
                       !.keyringMetadata = payload.keyringMetadata]

setKeyringToVerify(state, payload) == [state EXCEPT !.keyringToVerify = payload]

\* extraReducers: importKeyring.pending
importKeyringPending(state) == [state EXCEPT !.importing = "pending"]

\* extraReducers: importKeyring.fulfilled
importKeyringFulfilled(state) ==
    [state EXCEPT !.importing = "done", !.keyringToVerify = Null]

\* importKeyring.rejected has no case in the slice: the state stays as it is.
importKeyringRejected(state) == state

\* The reducer of the slice applied to an action the service emitted.
keyringsReducer(state, action) ==
    CASE action.type = "keyrings/keyringLocked" -> keyringLocked(state)
      [] action.type = "keyrings/keyringUnlocked" -> keyringUnlocked(state)
      [] action.type = "keyrings/updateKeyrings" -> updateKeyrings(state, action.payload)

\* The keyring the i-th importKeyring imports, with two addresses.
KeyringOf(i) ==
    [id |-> i, addresses |-> <<[keyring |-> i, index |-> 0],
                               [keyring |-> i, index |-> 1]>>]

\* The metadata of a list of keyrings.
MetadataOf(keyrings) ==
    {[id |-> keyrings[j].id, source |-> "import"] : j \in 1..Len(keyrings)}

\* The payload of updateKeyrings for a list of keyrings.
KeyringsPayload(keyrings) ==
    [keyrings |-> keyrings, keyringMetadata |-> MetadataOf(keyrings)]

\* The slice, the service and the thunks before anything happened: no
\* importKeyring thunk dispatched yet.  `running` holds the handlers of the
\* importKeyring event that have not completed.
InitKeyrings ==
    /\ keyringsState = keyringsInitialState
    /\ selectedAccount = Null
    /\ service = [locked |-> TRUE, keyrings |-> <<>>, locks |-> 0]
    /\ inFlight = {}
    /\ thunks = [i \in 1..MaxImports |->
                   [pc |-> "idle", running |-> {}, selected |-> Null]]
    /\ lockSnapshot = Null
    /\ lastKeyringEvent = [type |-> "init", thunk |-> 0]

----------------------------------------------------------------------------
(* The Send view and the accounts panel as they are mounted. *)

\* The addresses listed in the accounts panel.
PanelAddresses == {"0x1d", "0x2a", "0x3c"}

\* useState(undefined), useState(""), useState(false); the store has an
\* account selected; no call of sendTransactionRequest made yet (`effects`
\* lists what a call has done so far, in order).
InitViews ==
    /\ sendForm = [assetAmount |-> Undefined, destinationAddress |-> Undefined]
    /\ isSendingTransactionRequest = FALSE
    /\ location = "/send"
    /\ calls = [i \in 1..MaxSends |-> [pc |-> "idle", effects |-> <<>>]]
    /\ pendingSelectedAddress = ""
    /\ selectedAccountAddress = "0x1d"
    /\ selecting = <<>>
    /\ effectDue = TRUE
    /\ selections = <<>>
    /\ callbacks = <<>>

----------------------------------------------------------------------------
(* The store as a state machine: one action per dispatched reducer. *)

State == [accountsData |-> accountsData,
          combinedData |-> combinedData,
          names |-> availableDefaultNames,
          threw |-> FALSE]

\* "absent", "loading" or "ready"
StatusIn(accounts, k) ==
    IF ~Has(accounts, k) THEN "absent"
    ELSE IF Get(accounts, k) = Loading THEN "loading" ELSE "ready"

Becomes(t) ==
    /\ dispatched < MaxOps
    /\ dispatched' = dispatched + 1
    /\ accountsData' = t.accountsData
    /\ combinedData' = t.combinedData
    /\ availableDefaultNames' = t.names
    /\ UNCHANGED exceptStore

\* What the action found: the state, before it ran, of each key its payload names.
Found(keys) == [k \in keys |-> StatusIn(accountsData, k)]

\* parseLogsForERC20Transfers not called yet.
Pending == [called |-> FALSE, threw |-> FALSE, value |-> <<>>]

\* The store and the pool as the modules leave them when loaded.
InitStore ==
    /\ accountsData = initialState.accountsData
    /\ combinedData = initialState.combinedData
    /\ availableDefaultNames = InitialDefaultNames
    /\ last = [op |-> "init", threw |-> FALSE, pre |-> <<>>]
    /\ deletedWhileLoading = {}
    /\ dispatched = 0

\* No log list handed to the parser.
NoLogs ==
    /\ logs = <<>>
    /\ transfers = Pending

\* No call data handed to the parser.
NoCall ==
    /\ input = [selector |-> "", words |-> <<>>]
    /\ description = Pending

Init ==
    /\ InitStore
    /\ NoLogs
    /\ NoCall
    /\ InitKeyrings
    /\ InitViews

\* dispatch(loadAccount(a)) for some a of `addresses`.
LoadAccountFrom(addresses) ==
    \E a \in addresses :
        LET t == loadAccount(State, a)
        IN  /\ Becomes(t)
            /\ last' = [op |-> "loadAccount", threw |-> t.threw,
                        pre |-> Found({normalizeEVMAddress(a)})]
            /\ deletedWhileLoading' = deletedWhileLoading \ {normalizeEVMAddress(a)}

\* dispatch(deleteAccount(a)) for some a of `addresses`.
DeleteAccountFrom(addresses) ==
    \E a \in addresses :
        LET t == deleteAccount(State, a)
        IN  /\ Becomes(t)
            /\ last' = [op |-> "deleteAccount", threw |-> t.threw,
                        pre |-> Found({normalizeEVMAddress(a)})]
            /\ deletedWhileLoading' =
                   IF StatusIn(accountsData, normalizeEVMAddress(a)) = "loading"
                   THEN deletedWhileLoading \cup {normalizeEVMAddress(a)}
                   ELSE deletedWhileLoading

\* dispatch(updateAccountBalance(b)) for some b of `batches`.
UpdateAccountBalanceFrom(batches) ==
    \E b \in batches :
        LET t == updateAccountBalance(State, b)
        IN  /\ Becomes(t)
            /\ last' = [op |-> "updateAccountBalance", threw |-> t.threw,
                        pre |-> Found({normalizeEVMAddress(b[i].address) :
                                          i \in 1..Len(b)})]
            /\ UNCHANGED deletedWhileLoading

\* dispatch(updateAccountName(p)) for some p of `payloads`.
UpdateAccountNameFrom(payloads) ==
    \E p \in payloads :
        LET t == updateAccountName(State, p)
        IN  /\ Becomes(t)
            /\ last' = [op |-> "updateAccountName", threw |-> t.threw,
                        pre |-> Found({normalizeEVMAddress(p.address)})]
            /\ UNCHANGED deletedWhileLoading

\* dispatch(updateENSAvatar(p)) for some p of `payloads`.
UpdateENSAvatarFrom(payloads) ==
    \E p \in payloads :
        LET t == updateENSAvatar(State, p)
        IN  /\ Becomes(t)
            /\ last' = [op |-> "updateENSAvatar", threw |-> t.threw,
                        pre |-> Found({normalizeEVMAddress(p.address)})]
            /\ UNCHANGED deletedWhileLoading

LoadAccount == LoadAccountFrom(AddrInputs)

DeleteAccount == DeleteAccountFrom(AddrInputs)

UpdateAccountBalance == UpdateAccountBalanceFrom(Batches)

UpdateAccountName == UpdateAccountNameFrom(NamePayloads)

UpdateENSAvatar == UpdateENSAvatarFrom(AvatarPayloads)

Next ==
    \/ LoadAccount
    \/ DeleteAccount
    \/ UpdateAccountBalance
    \/ UpdateAccountName
    \/ UpdateENSAvatar

Spec == Init /\ [][Next]_vars

\* The two addresses of the runs that start with both tracked.
TrackedAddrInputs == {<<"1", "d">>, <<"2", "a">>}

\* The store after loadAccount was dispatched for two addresses: both are
\* tracked and "loading", the pool is as the module left it.
InitTracked ==
    /\ \E a, b \in TrackedAddrInputs :
           LET loaded == loadAccount(loadAccount([accountsData |-> initialState.accountsData,
                                                  combinedData |-> initialState.combinedData,
                                                  names |-> InitialDefaultNames,
                                                  threw |-> FALSE], a), b)
           IN  /\ accountsData = loaded.accountsData
               /\ combinedData = loaded.combinedData
               /\ availableDefaultNames = loaded.names
    /\ last = [op |-> "loadAccount", threw |-> FALSE, pre |-> <<>>]
    /\ deletedWhileLoading = {}
    /\ dispatched = 0
    /\ NoLogs
    /\ NoCall
    /\ InitKeyrings
    /\ InitViews

\* Payloads for the two addresses, one asset and one amount.
TrackedBatches ==
    SeqsUpTo([address : TrackedAddrInputs, network : Networks,
              assetAmount : [asset : [symbol : {"ETH"}], amount : {1}]], MaxBatch)

NextTracked ==
    \/ LoadAccountFrom(TrackedAddrInputs)
    \/ DeleteAccountFrom(TrackedAddrInputs)
    \/ UpdateAccountBalanceFrom(TrackedBatches)
    \/ UpdateAccountNameFrom([address : TrackedAddrInputs, network : Networks,
                              name : DomainNames])
    \/ UpdateENSAvatarFrom([address : TrackedAddrInputs, network : Networks,
                            avatar : AvatarURIs])

SpecTracked == InitTracked /\ [][NextTracked]_vars

----------------------------------------------------------------------------
(* Identity generation on its own: newAccountData called directly with any  *)
(* address and any count of existing accounts.                              *)

\* newAccountData(a, net, n) called on the pool as it is.
Generates(a, net, n) ==
    LET created == newAccountData(availableDefaultNames, a, net, n)
    IN  /\ dispatched' = dispatched + 1
        /\ availableDefaultNames' = created.names
        /\ last' = [op |-> "newAccountData", threw |-> created.threw,
                    address |-> a, count |-> n,
                    index |-> defaultNameIndex(availableDefaultNames, a, n),
                    data |-> created.data, pre |-> <<>>]
        /\ UNCHANGED <<accountsData, combinedData, deletedWhileLoading>>
        /\ UNCHANGED exceptStore

GenerateIdentity ==
    \E a \in AddrKeys, net \in Networks, n \in 0..MaxExisting :
        /\ dispatched < MaxCreations
        /\ Generates(a, net, n)

NextPool == GenerateIdentity

SpecPool == Init /\ [][NextPool]_vars

----------------------------------------------------------------------------
(* Records created one after another and none deleted: each creation finds  *)
(* as many existing accounts as were created before it.                     *)

CreateNextRecord ==
    \E a \in AddrKeys, net \in Networks :
        /\ dispatched < MaxRecords
        /\ Generates(a, net, dispatched)

NextSequence == CreateNextRecord

SpecSequence == Init /\ [][NextSequence]_vars

----------------------------------------------------------------------------
(* The store dispatched payloads whose address is any string: the payload   *)
(* types are `string` / HexString, which a string that is no hex number     *)
(* inhabits as well.                                                        *)

\* 0x1d, and a string that is not a hex number.
AnyAddrInputs == {<<"1", "d">>, <<"z", "z">>}

AnyAccountBalances ==
    [address : AnyAddrInputs, network : Networks,
     assetAmount : [asset : [symbol : {"ETH"}], amount : {1}]]

AnyBatches == SeqsUpTo(AnyAccountBalances, MaxBatch)

AnyNamePayloads == [address : AnyAddrInputs, network : Networks, name : DomainNames]
AnyAvatarPayloads == [address : AnyAddrInputs, network : Networks, avatar : AvatarURIs]

LoadAnyAccount == LoadAccountFrom(AnyAddrInputs)

DeleteAnyAccount == DeleteAccountFrom(AnyAddrInputs)

UpdateAnyAccountBalance == UpdateAccountBalanceFrom(AnyBatches)

UpdateAnyAccountName == UpdateAccountNameFrom(AnyNamePayloads)

UpdateAnyENSAvatar == UpdateENSAvatarFrom(AnyAvatarPayloads)

NextAnyPayload ==
    \/ LoadAnyAccount
    \/ DeleteAnyAccount
    \/ UpdateAnyAccountBalance
    \/ UpdateAnyAccountName
    \/ UpdateAnyENSAvatar

SpecAnyPayload == Init /\ [][NextAnyPayload]_vars

----------------------------------------------------------------------------
(* ERC-20 Transfer logs.  An ABI word is a sequence of WordLen bytes, an    *)
(* address a sequence of AddrLen bytes; the event                           *)
(* Transfer(address indexed from, address indexed to, uint amount) puts its *)
(* topic hash and the two indexed addresses, each left-padded to a word,    *)
(* into topics, and the amount, as one big-endian word, into data.  An      *)
(* address is modelled as its bytes: the letter case of its text is not.    *)

\* What a throwing expression leaves in place of a value.
Threw == [sentinel |-> "threw"]

\* The topic hash of an event fragment, one word.
EventTopic(name) == [i \in 1..WordLen |-> IF name = "Transfer" THEN 221 ELSE 140]

\* bytes left-padded with zero bytes to len bytes.
ZeroPad(bytes, len) == [i \in 1..(len - Len(bytes)) |-> 0] \o bytes

\* The unsigned integer n as len big-endian bytes.
RECURSIVE UintBytes(_, _)
UintBytes(n, len) ==
    IF len = 0 THEN <<>> ELSE Append(UintBytes(n \div 256, len - 1), n % 256)

\* The unsigned integer that big-endian bytes denote.
RECURSIVE UintOf(_)
UintOf(bytes) ==
    IF bytes = <<>> THEN 0
    ELSE 256 * UintOf(SubSeq(bytes, 1, Len(bytes) - 1)) + bytes[Len(bytes)]

\* The topics and data of the event Transfer(from, to, amount).
EncodeTransfer(from, to, amount) ==
    [topics |-> <<EventTopic("Transfer"), ZeroPad(from, WordLen), ZeroPad(to, WordLen)>>,
     data |-> UintBytes(amount, WordLen)]

\* Whether a word holds an address: nothing but zero bytes in front of it.
IsAddressWord(word) == \A i \in 1..(WordLen - AddrLen) : word[i] = 0

AddressOfWord(word) == SubSeq(word, WordLen - AddrLen + 1, WordLen)

\* Interface.decodeEventLog(fragment, data, topics) for a fragment with two
\* indexed addresses and one uint: the decoded values, or Threw -- on
\* a first topic that is not the fragment's, on topics or data that end
\* before the values do, and (when the field is read) on a topic that
\* holds no address.
decodeEventLog(eventFragment, data, topics) ==
    IF Len(topics) = 0 \/ topics[1] # EventTopic(eventFragment) THEN Threw
    ELSE IF Len(topics) < 3 \/ Len(data) < WordLen THEN Threw
    ELSE IF ~IsAddressWord(topics[2]) \/ ~IsAddressWord(topics[3]) THEN Threw
    ELSE [from |-> AddressOfWord(topics[2]),
          to |-> AddressOfWord(topics[3]),
          amount |-> [hex |-> SubSeq(data, 1, WordLen)]]

\* BigNumber.prototype.toBigInt
toBigInt(bigNumber) == UintOf(bigNumber.hex)

\* Faulty variant: no catch around the decoding.
parseLogNoCatch(log) ==
    LET decoded == decodeEventLog("Transfer", log.data, log.topics)
    IN  IF decoded = Threw THEN Threw
        ELSE [contractAddress |-> log.contractAddress,
              amount |-> toBigInt(decoded.amount),
              senderAddress |-> decoded.from,
              recipientAddress |-> decoded.to]

\* Faulty variant: sender and recipient taken from each other's field.
parseLogSwapsParties(log) ==
    LET decoded == decodeEventLog("Transfer", log.data, log.topics)
    IN  IF decoded = Threw THEN Undefined
        ELSE [contractAddress |-> log.contractAddress,
              amount |-> toBigInt(decoded.amount),
              senderAddress |-> decoded.to,
              recipientAddress |-> decoded.from]

\* The callback of logs.map: the transfer a log holds, or undefined.
parseLog(log) ==
    LET decoded == decodeEventLog("Transfer", log.data, log.topics)
    IN  IF decoded = Threw
        THEN Undefined                                 \* catch (_)
        ELSE IF \/ "to" \notin DOMAIN decoded
                \/ "from" \notin DOMAIN decoded
                \/ "amount" \notin DOMAIN decoded
        THEN Undefined
        ELSE [contractAddress |-> log.contractAddress,
              amount |-> toBigInt(decoded.amount),
              senderAddress |-> decoded.from,
              recipientAddress |-> decoded.to]

\* Faulty variant: the parsed records returned last log first.
parseLogsForERC20TransfersReversed(evmLogs) ==
    LET mapped == [i \in 1..Len(evmLogs) |-> parseLog(evmLogs[Len(evmLogs) + 1 - i])]
    IN  [threw |-> FALSE,
         value |-> SelectSeq(mapped, LAMBDA info : info # Undefined)]

\* logs.map(...).filter((info) => typeof info !== "undefined"): what the call
\* returns, or threw when the callback lets an exception out.
parseLogsForERC20Transfers(evmLogs) ==
    LET mapped == [i \in 1..Len(evmLogs) |-> parseLog(evmLogs[i])]
    IN  IF \E i \in 1..Len(mapped) : mapped[i] = Threw
        THEN [threw |-> TRUE, value |-> <<>>]
        ELSE [threw |-> FALSE,
              value |-> SelectSeq(mapped, LAMBDA info : info # Undefined)]

\* The addresses 0xaa..aa and 0xbb..bb.
LogAddresses == {[i \in 1..AddrLen |-> 170], [i \in 1..AddrLen |-> 187]}

TransferAmounts == {0, 1000}

ContractAddresses == {"0xtoken1", "0xtoken2"}

EVMLogOf(contractAddress, encoded) ==
    [contractAddress |-> contractAddress,
     data |-> encoded.data, topics |-> encoded.topics]

\* The logs of well-formed Transfer events.
TransferLogs ==
    {EVMLogOf(c, EncodeTransfer(from, to, amount)) :
        c \in ContractAddresses, from \in LogAddresses, to \in LogAddresses,
        amount \in TransferAmounts}

\* Logs that are not a Transfer event: data cut short, the topic of another
\* event, a topic missing, no topics, a topic that is no address.
UndecodableLogs ==
    LET e == EncodeTransfer([i \in 1..AddrLen |-> 170], [i \in 1..AddrLen |-> 187], 1000)
        c == "0xtoken1"
    IN  { EVMLogOf(c, [e EXCEPT !.data = SubSeq(@, 1, WordLen - 1)]),
          EVMLogOf(c, [e EXCEPT !.topics[1] = EventTopic("Approval")]),
          EVMLogOf(c, [e EXCEPT !.topics = SubSeq(@, 1, 2)]),
          EVMLogOf(c, [e EXCEPT !.topics = <<>>]),
          EVMLogOf(c, [e EXCEPT !.topics[2] = [i \in 1..WordLen |-> 1]]) }

EVMLogs == TransferLogs \cup UndecodableLogs

LogLists == SeqsUpTo(EVMLogs, MaxLogs)

InitLogs ==
    /\ InitStore
    /\ NoCall
    /\ InitKeyrings
    /\ InitViews
    /\ logs \in LogLists
    /\ transfers = Pending

ParseLogs ==
    /\ ~transfers.called
    /\ LET returned == parseLogsForERC20Transfers(logs)
       IN  transfers' = [called |-> TRUE, threw |-> returned.threw,
                         value |-> returned.value]
    /\ UNCHANGED logs
    /\ UNCHANGED exceptLogs

NextLogs == ParseLogs

SpecLogs == InitLogs /\ [][NextLogs]_vars

----------------------------------------------------------------------------
(* Call data.  The data of a contract call is the selector of a function    *)
(* (the first four bytes of the hash of its signature, modelled by the      *)
(* function's name) followed by its arguments, one ABI word each.           *)

\* ERC20_FUNCTIONS, by name.
ERC20_FUNCTIONS ==
    {"allowance", "approve", "balanceOf", "decimals", "name", "symbol",
     "totalSupply", "transfer", "transferFrom"}

\* ERC20_EVENTS, by name.
ERC20_EVENTS == {"Transfer", "Approval"}

ERC20_ABI == ERC20_FUNCTIONS \cup ERC20_EVENTS

\* ERC2612_FUNCTIONS, by name.
ERC2612_FUNCTIONS == {"permit", "nonces", "DOMAIN_SEPARATOR"}

ERC2612_ABI == ERC20_ABI \cup ERC2612_FUNCTIONS

\* new ethers.utils.Interface(abi): the fragments it knows.
ERC20_INTERFACE == ERC20_ABI
ERC2612_INTERFACE == ERC2612_ABI

\* The number of inputs of a function fragment.
InputsOf(name) ==
    CASE name \in {"decimals", "name", "symbol", "totalSupply", "DOMAIN_SEPARATOR"} -> 0
      [] name \in {"balanceOf", "nonces"} -> 1
      [] name \in {"allowance", "approve", "transfer"} -> 2
      [] name = "transferFrom" -> 3
      [] name = "permit" -> 7

\* Interface.parseTransaction({ data }): the description of the call, or
\* Threw -- when the interface has no function with the selector of the
\* data, or the data ends before the function's inputs do.
parseTransaction(interface, data) ==
    IF data.selector \notin (interface \ ERC20_EVENTS) THEN Threw
    ELSE IF Len(data.words) < InputsOf(data.selector) THEN Threw
    ELSE [name |-> data.selector,
          args |-> SubSeq(data.words, 1, InputsOf(data.selector))]

\* parseERC20Tx(input): what it returns, and whether it threw.
parseERC20Tx(data) ==
    LET parsed == parseTransaction(ERC20_INTERFACE, data)
    IN  IF parsed = Threw
        THEN [threw |-> FALSE, value |-> Undefined]     \* catch (err)
        ELSE [threw |-> FALSE, value |-> parsed]

\* The selectors call data is drawn from: every function of both
\* interfaces, a function of neither, and data too short for a selector.
Selectors == ERC20_FUNCTIONS \cup ERC2612_FUNCTIONS \cup {"mint", ""}

ArgWords == {0, 7}

CallData == [selector : Selectors, words : SeqsUpTo(ArgWords, MaxWords)]

InitCall ==
    /\ InitStore
    /\ NoLogs
    /\ InitKeyrings
    /\ InitViews
    /\ input \in CallData
    /\ description = Pending

ParseCall ==
    /\ ~description.called
    /\ LET returned == parseERC20Tx(input)
       IN  description' = [called |-> TRUE, threw |-> returned.threw,
                           value |-> returned.value]
    /\ UNCHANGED input
    /\ UNCHANGED exceptCall

NextCall == ParseCall

SpecCall == InitCall /\ [][NextCall]_vars

----------------------------------------------------------------------------
(* The keyrings slice as a state machine: the importKeyring thunks, the     *)
(* keyring service behind the emitter, and the actions the service sends    *)
(* to the store, which arrive one at a time in any order.                   *)

KeyringEvent(type, i) == [type |-> type, thunk |-> i]

\* dispatch(importKeyring(...)): the pending action is reduced, then the
\* payload creator emits importKeyring and awaits every handler: the
\* keyring service's and another listener's.
DispatchImportKeyring(i) ==
    /\ thunks[i].pc = "idle"
    /\ keyringsState' = importKeyringPending(keyringsState)
    /\ thunks' = [thunks EXCEPT ![i] = [pc |-> "awaiting",
                                        running |-> {"service", "listener"},
                                        selected |-> Null]]
    /\ lastKeyringEvent' = KeyringEvent("pending", i)
    /\ UNCHANGED <<selectedAccount, service, inFlight, lockSnapshot>>
    /\ UNCHANGED exceptKeyrings

\* The service's handler of importKeyring completes: the new keyring is
\* pushed to the end of the service's list and the list is sent to the store.
ServiceImports(i) ==
    /\ "service" \in thunks[i].running
    /\ ~service.locked
    /\ service' = [service EXCEPT !.keyrings = Append(@, KeyringOf(i))]
    /\ inFlight' = inFlight \cup
           {[type |-> "keyrings/updateKeyrings",
             payload |-> KeyringsPayload(service'.keyrings)]}
    /\ thunks' = [thunks EXCEPT ![i].running = @ \ {"service"}]
    /\ lastKeyringEvent' = KeyringEvent("imported", i)
    /\ UNCHANGED <<keyringsState, selectedAccount, lockSnapshot>>
    /\ UNCHANGED exceptKeyrings

\* Another handler of importKeyring completes.
ListenerCompletes(i) ==
    /\ "listener" \in thunks[i].running
    /\ thunks' = [thunks EXCEPT ![i].running = @ \ {"listener"}]
    /\ lastKeyringEvent' = KeyringEvent("listened", i)
    /\ UNCHANGED <<keyringsState, selectedAccount, service, inFlight, lockSnapshot>>
    /\ UNCHANGED exceptKeyrings

\* A handler of importKeyring fails: emit rejects, the payload creator ends
\* there and the thunk is rejected.
HandlerFails(i) ==
    /\ thunks[i].pc = "awaiting"
    /\ \E h \in thunks[i].running :
           thunks' = [thunks EXCEPT ![i].running = @ \ {h}, ![i].pc = "rejected"]
    /\ keyringsState' = importKeyringRejected(keyringsState)
    /\ lastKeyringEvent' = KeyringEvent("rejected", i)
    /\ UNCHANGED <<selectedAccount, service, inFlight, lockSnapshot>>
    /\ UNCHANGED exceptKeyrings

\* emit has resolved: every handler of the event has completed.
HandlersDone(i) == thunks[i].pc = "awaiting" /\ thunks[i].running = {}

\* keyrings.keyrings.slice(-1)[0].addresses[0]
addressToSelect(keyrings) == keyrings[Len(keyrings)].addresses[1]

\* The payload creator after the await: it reads the state and dispatches
\* setNewSelectedAccount, and the thunk is fulfilled; with no keyring in the
\* state the read raises and the thunk is rejected.
ImportContinues(i) ==
    /\ HandlersDone(i)
    /\ IF Len(keyringsState.keyrings) = 0
       THEN /\ thunks' = [thunks EXCEPT ![i].pc = "rejected"]
            /\ keyringsState' = importKeyringRejected(keyringsState)
            /\ lastKeyringEvent' = KeyringEvent("rejected", i)
            /\ UNCHANGED selectedAccount
       ELSE /\ selectedAccount' = addressToSelect(keyringsState.keyrings)
            /\ thunks' = [thunks EXCEPT ![i].pc = "fulfilled",
                                        ![i].selected = selectedAccount']
            /\ keyringsState' = importKeyringFulfilled(keyringsState)
            /\ lastKeyringEvent' = KeyringEvent("fulfilled", i)
    /\ UNCHANGED <<service, inFlight, lockSnapshot>>
    /\ UNCHANGED exceptKeyrings

\* The store reduces one of the actions the service sent.
Deliver ==
    /\ \E action \in inFlight :
           /\ keyringsState' = keyringsReducer(keyringsState, action)
           /\ inFlight' = inFlight \ {action}
           /\ lastKeyringEvent' = KeyringEvent(action.type, 0)
    /\ UNCHANGED <<selectedAccount, service, thunks, lockSnapshot>>
    /\ UNCHANGED exceptKeyrings

\* The service locks and clears its in-memory keyrings: keyringLocked and
\* updateKeyrings with an empty list are sent to the store.
ServiceLocks ==
    /\ ~service.locked
    /\ service.locks < MaxLocks
    /\ inFlight = {}
    /\ service' = [service EXCEPT !.locked = TRUE, !.locks = @ + 1]
    /\ lockSnapshot' = [keyrings |-> keyringsState.keyrings,
                        keyringMetadata |-> keyringsState.keyringMetadata]
    /\ inFlight' = {[type |-> "keyrings/keyringLocked", payload |-> Null],
                    [type |-> "keyrings/updateKeyrings",
                     payload |-> KeyringsPayload(<<>>)]}
    /\ lastKeyringEvent' = KeyringEvent("locks", 0)
    /\ UNCHANGED <<keyringsState, selectedAccount, thunks>>
    /\ UNCHANGED exceptKeyrings

\* The service unlocks: keyringUnlocked and updateKeyrings with the stored
\* keyrings are sent to the store.
ServiceUnlocks ==
    /\ service.locked
    /\ inFlight = {}
    /\ service' = [service EXCEPT !.locked = FALSE]
    /\ lockSnapshot' = Null
    /\ inFlight' = {[type |-> "keyrings/keyringUnlocked", payload |-> Null],
                    [type |-> "keyrings/updateKeyrings",
                     payload |-> KeyringsPayload(service.keyrings)]}
    /\ lastKeyringEvent' = KeyringEvent("unlocks", 0)
    /\ UNCHANGED <<keyringsState, selectedAccount, thunks>>
    /\ UNCHANGED exceptKeyrings

\* dispatch(setKeyringToVerify(payload))
SetKeyringToVerify ==
    /\ \E payload \in {Null, [id |-> "9", mnemonic |-> "m"]} :
           /\ keyringsState.keyringToVerify # payload
           /\ keyringsState' = setKeyringToVerify(keyringsState, payload)
    /\ lastKeyringEvent' = KeyringEvent("toVerify", 0)
    /\ UNCHANGED <<selectedAccount, service, inFlight, thunks, lockSnapshot>>
    /\ UNCHANGED exceptKeyrings

NextKeyrings ==
    \/ \E i \in 1..MaxImports : DispatchImportKeyring(i)
    \/ \E i \in 1..MaxImports : ServiceImports(i)
    \/ \E i \in 1..MaxImports : ListenerCompletes(i)
    \/ \E i \in 1..MaxImports : HandlerFails(i)
    \/ \E i \in 1..MaxImports : ImportContinues(i)
    \/ Deliver
    \/ ServiceLocks
    \/ ServiceUnlocks
    \/ SetKeyringToVerify

SpecKeyrings == Init /\ [][NextKeyrings]_vars

----------------------------------------------------------------------------
(* The Send view: the form, and the calls of sendTransactionRequest, each   *)
(* suspended at its await until the dispatch of transferAsset settles.      *)

\* What assetAmountFromForm() and destinationAddress can be in a render.
SendForms ==
    [assetAmount : {Undefined, [asset |-> "ETH", amount |-> 1]},
     destinationAddress : {Undefined, [address |-> "0x2a"]}]

\* The user edits the amount or the destination: the next render has
\* another assetAmount or destinationAddress.
EditForm ==
    /\ location = "/send"
    /\ \E form \in SendForms :
           /\ form # sendForm
           /\ sendForm' = form
    /\ UNCHANGED <<isSendingTransactionRequest, location, calls>>
    /\ UNCHANGED exceptSend

\* sendTransactionRequest() up to its await, or to its early return.
SendTransactionRequest(i) ==
    /\ location = "/send"
    /\ calls[i].pc = "idle"
    /\ \A j \in 1..(i - 1) : calls[j].pc # "idle"
    /\ IF sendForm.assetAmount = Undefined \/ sendForm.destinationAddress = Undefined
       THEN /\ calls' = [calls EXCEPT ![i].pc = "returned"]
            /\ UNCHANGED isSendingTransactionRequest
       ELSE /\ isSendingTransactionRequest' = TRUE
            /\ calls' = [calls EXCEPT
                            ![i].pc = "awaiting",
                            ![i].effects = <<"setIsSendingTransactionRequest(true)",
                                             "dispatch(transferAsset)">>]
    /\ UNCHANGED <<sendForm, location>>
    /\ UNCHANGED exceptSend

\* The dispatch resolved: the finally block, then history.push.
TransferResolves(i) ==
    /\ calls[i].pc = "awaiting"
    /\ isSendingTransactionRequest' = FALSE
    /\ location' = "/singleAsset"
    /\ calls' = [calls EXCEPT
                    ![i].pc = "resolved",
                    ![i].effects = @ \o <<"setIsSendingTransactionRequest(false)",
                                          "history.push(/singleAsset)">>]
    /\ UNCHANGED sendForm
    /\ UNCHANGED exceptSend

\* Faulty variant: the flag is reset after the await, outside a finally.
TransferRejectsNoFinally(i) ==
    /\ calls[i].pc = "awaiting"
    /\ calls' = [calls EXCEPT ![i].pc = "rejected"]
    /\ UNCHANGED <<sendForm, isSendingTransactionRequest, location>>
    /\ UNCHANGED exceptSend

\* The dispatch rejected: the finally block, then the error leaves the call.
TransferRejects(i) ==
    /\ calls[i].pc = "awaiting"
    /\ isSendingTransactionRequest' = FALSE
    /\ calls' = [calls EXCEPT
                    ![i].pc = "rejected",
                    ![i].effects = @ \o <<"setIsSendingTransactionRequest(false)">>]
    /\ UNCHANGED <<sendForm, location>>
    /\ UNCHANGED exceptSend

NextSend ==
    \/ EditForm
    \/ \E i \in 1..MaxSends : SendTransactionRequest(i)
    \/ \E i \in 1..MaxSends : TransferResolves(i)
    \/ \E i \in 1..MaxSends : TransferRejects(i)

SpecSend == Init /\ [][NextSend]_vars

----------------------------------------------------------------------------
(* The accounts panel: updateCurrentAccount, the store adopting a selected  *)
(* account, and the effect that reports the change.                         *)

\* updateCurrentAccount(address): the pending selection is set and
\* setNewSelectedAccount dispatched.
UpdateCurrentAccount(address) ==
    /\ Len(selections) < MaxSelections
    /\ pendingSelectedAddress' = address
    /\ selecting' = Append(selecting, address)
    /\ selections' = Append(selections, [address |-> address,
                                         unadopted |-> Len(selecting)])
    /\ effectDue' = (effectDue \/ pendingSelectedAddress # address)
    /\ UNCHANGED <<selectedAccountAddress, callbacks>>
    /\ UNCHANGED exceptPanel

\* The store adopts one of the selections dispatched, and the selector
\* gives the component the new address.
StoreAdopts ==
    /\ \E j \in 1..Len(selecting) :
           /\ selectedAccountAddress' = selecting[j]
           /\ selecting' = SubSeq(selecting, 1, j - 1)
                            \o SubSeq(selecting, j + 1, Len(selecting))
    /\ effectDue' = (effectDue \/ selectedAccountAddress' # selectedAccountAddress)
    /\ UNCHANGED <<pendingSelectedAddress, selections, callbacks>>
    /\ UNCHANGED exceptPanel

\* Faulty variant: the store's selected address is not compared.
shouldNotifyIgnoresStore(pending, selected) == pending # ""

\* The condition of the effect.
shouldNotify(pending, selected) == pending # "" /\ pending = selected

\* The effect runs after a render in which one of its dependencies changed.
RunEffect ==
    /\ effectDue
    /\ IF shouldNotify(pendingSelectedAddress, selectedAccountAddress)
       THEN /\ callbacks' = Append(callbacks, [address |-> pendingSelectedAddress,
                                               call |-> Len(selections)])
            /\ pendingSelectedAddress' = ""
            /\ effectDue' = TRUE
       ELSE /\ effectDue' = FALSE
            /\ UNCHANGED <<pendingSelectedAddress, callbacks>>
    /\ UNCHANGED <<selectedAccountAddress, selecting, selections>>
    /\ UNCHANGED exceptPanel

NextPanel ==
    \/ \E address \in PanelAddresses : UpdateCurrentAccount(address)
    \/ StoreAdopts
    \/ RunEffect

SpecPanel == Init /\ [][NextPanel]_vars

----------------------------------------------------------------------------
(* Vocabulary of the properties. *)

IsReady(accounts, k) == StatusIn(accounts, k) = "ready"
IsLoading(accounts, k) == StatusIn(accounts, k) = "loading"
IsAbsent(accounts, k) == StatusIn(accounts, k) = "absent"

\* The amount of `symbol` one account entry holds (nothing while loading).
HeldAmount(ad, symbol) ==
    IF ad = Loading \/ ~Has(ad.balances, symbol) THEN 0
    ELSE Get(ad.balances, symbol).assetAmount.amount

\* The sum of `symbol` over the entries of accounts, each entry once.
RECURSIVE RecordsTotal(_, _)
RecordsTotal(accounts, symbol) ==
    IF accounts = <<>> THEN 0
    ELSE HeldAmount(Head(accounts).value, symbol) + RecordsTotal(Tail(accounts), symbol)

\* The amount combinedData.assets lists for `symbol` (0 when it lists none).
RECURSIVE ListedAmount(_, _)
ListedAmount(assets, symbol) ==
    IF assets = <<>> THEN 0
    ELSE (IF Head(assets).asset.symbol = symbol THEN Head(assets).amount ELSE 0)
         + ListedAmount(Tail(assets), symbol)

CombinedMatches(s) ==
    \A symbol \in Symbols :
        ListedAmount(s.combinedData.assets, symbol) = RecordsTotal(s.accountsData, symbol)

\* Every entry of accounts other than k's is the same in before and after.
OthersUnchanged(before, after, k) ==
    \A j \in (Keys(before) \cup Keys(after)) \ {k} : Get(after, j) = Get(before, j)

----------------------------------------------------------------------------
(* C1..C10 *)

\* C1: right after updateAccountBalance, for every asset symbol the amount
\* combinedData.assets lists equals the sum of that symbol over the balances of
\* all ready records, each record counted once.
C1_BalanceUpdateCombinesReadyRecords ==
    last.op = "updateAccountBalance" => CombinedMatches(State)

\* Two ready records hold the same symbol when updateAccountBalance has just run.
C1_Witness ==
    /\ last.op = "updateAccountBalance"
    /\ \E symbol \in Symbols :
          /\ \A k \in AddrKeys :
                IsReady(accountsData, k) /\ HeldAmount(Get(accountsData, k), symbol) > 0
          /\ ListedAmount(combinedData.assets, symbol) > MaxAmount

\* C2: in every reachable state combinedData.assets is the symbol-wise sum over
\* the account records currently in accountsData.
C2_CombinedIsSumOfTrackedRecords == CombinedMatches(State)

\* C3 as stated: after deleteAccount of a loading address, an updateAccountBalance
\* with an update for that address has made it a ready record.
C3_UpdateRecreatesDeleted ==
    last.op = "updateAccountBalance" =>
        \A k \in DOMAIN last.pre \cap deletedWhileLoading : IsReady(accountsData, k)

\* C3 amended: deleteAccount of a loading address removes it, and an
\* updateAccountBalance with an update for that address leaves it untracked;
\* a payload of updates for that address alone changes neither accountsData
\* nor the pool.
C3_UpdateIgnoresDeleted ==
    /\ \A a \in AddrInputs :
          IsLoading(accountsData, normalizeEVMAddress(a)) =>
              IsAbsent(deleteAccount(State, a).accountsData, normalizeEVMAddress(a))
    /\ last.op = "updateAccountBalance" =>
          \A k \in DOMAIN last.pre \cap deletedWhileLoading : IsAbsent(accountsData, k)
    /\ \A k \in deletedWhileLoading, b \in Batches :
          (\A i \in 1..Len(b) : normalizeEVMAddress(b[i].address) = k) =>
              LET t == updateAccountBalance(State, b)
              IN  t.accountsData = accountsData /\ t.names = availableDefaultNames

\* updateAccountBalance has run with an update for an address deleted while loading.
C3_Witness ==
    /\ last.op = "updateAccountBalance"
    /\ \E k \in DOMAIN last.pre \cap deletedWhileLoading : IsAbsent(accountsData, k)

\* C4: loadAccount on an untracked address appends one "loading" entry for its
\* key and changes nothing else; on a tracked address (loading or ready) it
\* returns the state unchanged; applying it twice equals applying it once.
C4_LoadAccount ==
    \A a \in AddrInputs :
        LET k == normalizeEVMAddress(a)
            t == loadAccount(State, a)
        IN  /\ IsAbsent(accountsData, k) =>
                  /\ Len(t.accountsData) = Len(accountsData) + 1
                  /\ Keys(t.accountsData) = Keys(accountsData) \cup {k}
                  /\ Get(t.accountsData, k) = Loading
                  /\ OthersUnchanged(accountsData, t.accountsData, k)
                  /\ t.combinedData = combinedData
                  /\ t.names = availableDefaultNames
            /\ ~IsAbsent(accountsData, k) => t = State
            /\ loadAccount(t, a) = t

\* loadAccount has run on a ready record, which is still ready.
C4_Witness ==
    /\ last.op = "loadAccount"
    /\ \E k \in DOMAIN last.pre : last.pre[k] = "ready" /\ IsReady(accountsData, k)

\* C5: deleteAccount removes the address's entry, loading or ready, leaves every
\* other entry unchanged, and returns the state unchanged for an untracked address.
C5_DeleteAccount ==
    \A a \in AddrInputs :
        LET k == normalizeEVMAddress(a)
            t == deleteAccount(State, a)
        IN  /\ IsAbsent(t.accountsData, k)
            /\ Keys(t.accountsData) = Keys(accountsData) \ {k}
            /\ Len(t.accountsData) = Cardinality(Keys(accountsData) \ {k})
            /\ OthersUnchanged(accountsData, t.accountsData, k)
            /\ IsAbsent(accountsData, k) => t = State

\* deleteAccount has removed a ready record while another address stays tracked.
C5_Witness ==
    /\ last.op = "deleteAccount"
    /\ \E k \in DOMAIN last.pre :
          /\ last.pre[k] = "ready"
          /\ IsAbsent(accountsData, k)
          /\ \E j \in AddrKeys \ {k} : IsReady(accountsData, j)

\* C6: updateAccountName and updateENSAvatar for an untracked address leave
\* accountsData, combinedData and the pool unchanged.
C6_EnsUpdateOfUntrackedIgnored ==
    /\ \A p \in NamePayloads :
          IsAbsent(accountsData, normalizeEVMAddress(p.address)) =>
              updateAccountName(State, p) = State
    /\ \A p \in AvatarPayloads :
          IsAbsent(accountsData, normalizeEVMAddress(p.address)) =>
              updateENSAvatar(State, p) = State

\* An ENS update has run for an untracked address while another address is
\* tracked, and the address is still untracked.
C6_Witness ==
    /\ last.op \in {"updateAccountName", "updateENSAvatar"}
    /\ accountsData # <<>>
    /\ \E k \in DOMAIN last.pre : last.pre[k] = "absent" /\ IsAbsent(accountsData, k)

\* The record an ENS update leaves for a loading address k: the identity
\* newAccountData generates from the current pool and the count of the other
\* tracked addresses, empty balances, and the one ENS field.
MaterialisedWith(t, k, network, field, value) ==
    LET created == newAccountData(availableDefaultNames, k, network,
                                  OtherAccountsCount(accountsData, k))
        record == Get(t.accountsData, k)
    IN  /\ record = [created.data EXCEPT !.ens = <<[key |-> field, value |-> value]>>]
        /\ record.balances = <<>>
        /\ t.names = created.names
        /\ t.names[1] = record.defaultName
        /\ Keys(t.accountsData) = Keys(accountsData)
        /\ OthersUnchanged(accountsData, t.accountsData, k)
        /\ t.combinedData = combinedData
        \* the same identity, and the same pool, as a balance update for k gives
        /\ \A u \in AccountBalances :
              normalizeEVMAddress(u.address) = k =>
                  LET v == applyBalanceUpdate(State, u)
                  IN  /\ Get(v.accountsData, k).defaultName = record.defaultName
                      /\ Get(v.accountsData, k).defaultAvatar = record.defaultAvatar
                      /\ v.names = t.names

\* C7: updateAccountName or updateENSAvatar for a loading address replaces the
\* marker by a full record built by the identity generation of balance updates,
\* with empty balances and the given ENS name or avatar.
C7_EnsUpdateMaterialisesLoading ==
    /\ \A p \in NamePayloads :
          IsLoading(accountsData, normalizeEVMAddress(p.address)) =>
              MaterialisedWith(updateAccountName(State, p),
                               normalizeEVMAddress(p.address), p.network,
                               "name", p.name)
    /\ \A p \in AvatarPayloads :
          IsLoading(accountsData, normalizeEVMAddress(p.address)) =>
              MaterialisedWith(updateENSAvatar(State, p),
                               normalizeEVMAddress(p.address), p.network,
                               "avatarURL", p.avatar)

\* An ENS update has turned a loading address into a record, with another
\* address tracked.
C7_Witness ==
    /\ last.op \in {"updateAccountName", "updateENSAvatar"}
    /\ Len(accountsData) > 1
    /\ \E k \in DOMAIN last.pre :
          /\ last.pre[k] = "loading"
          /\ IsReady(accountsData, k)
          /\ Get(accountsData, k).ens # <<>>
          /\ Get(accountsData, k).balances = <<>>

\* The indexes of the entries of batch b for key k (and symbol).
EntriesFor(b, k) == {i \in 1..Len(b) : normalizeEVMAddress(b[i].address) = k}
EntriesForSymbol(b, k, symbol) ==
    {i \in EntriesFor(b, k) : b[i].assetAmount.asset.symbol = symbol}
Latest(indexes) == CHOOSE i \in indexes : \A j \in indexes : j <= i
Earliest(indexes) == CHOOSE i \in indexes : \A j \in indexes : i <= j

\* C8: a balance update for a loading address makes it a ready record with a
\* freshly generated identity whose balances hold exactly that entry; later
\* entries of the batch for the address are merged into the record and generate
\* no other identity.
C8_BalanceUpdateCreatesLoading ==
    /\ \A u \in AccountBalances :
          LET k == normalizeEVMAddress(u.address)
              t == applyBalanceUpdate(State, u)
              created == newAccountData(availableDefaultNames, k, u.network,
                                        OtherAccountsCount(accountsData, k))
          IN  IsLoading(accountsData, k) =>
                  /\ IsReady(t.accountsData, k)
                  /\ Get(t.accountsData, k).balances =
                         <<[key |-> u.assetAmount.asset.symbol, value |-> u]>>
                  /\ Get(t.accountsData, k).defaultName = created.data.defaultName
                  /\ Get(t.accountsData, k).defaultAvatar = created.data.defaultAvatar
                  /\ Get(t.accountsData, k).ens = <<>>
                  /\ t.names = created.names
                  /\ t.names[1] = created.data.defaultName
    /\ \A b \in Batches, k \in AddrKeys :
          (IsLoading(accountsData, k) /\ EntriesFor(b, k) # {}) =>
              LET first == Earliest(EntriesFor(b, k))
                  made == Get(applyBalanceUpdates(State, SubSeq(b, 1, first)).accountsData, k)
                  final == Get(updateAccountBalance(State, b).accountsData, k)
              IN  /\ final.defaultName = made.defaultName
                  /\ final.defaultAvatar = made.defaultAvatar
                  /\ \A symbol \in Symbols :
                        Get(final.balances, symbol) =
                            IF EntriesForSymbol(b, k, symbol) = {} THEN Undefined
                            ELSE b[Latest(EntriesForSymbol(b, k, symbol))]
                  /\ \A i \in EntriesFor(b, k) \ {first} :
                        LET before == applyBalanceUpdates(State, SubSeq(b, 1, i - 1))
                        IN  applyBalanceUpdate(before, b[i]).names = before.names

\* One updateAccountBalance has turned a loading address into a record holding
\* two balances.
C8_Witness ==
    /\ last.op = "updateAccountBalance"
    /\ \E k \in DOMAIN last.pre :
          /\ last.pre[k] = "loading"
          /\ IsReady(accountsData, k)
          /\ Len(Get(accountsData, k).balances) > 1

\* C9: a balance update for a ready record with symbol s overwrites balances[s]
\* of that record alone; its other balances, its ens, its identity and every
\* other record stay; of several entries of a batch for one address and symbol
\* the last is stored.
C9_BalanceUpdateOverwritesOneSymbol ==
    /\ \A u \in AccountBalances :
          LET k == normalizeEVMAddress(u.address)
              symbol == u.assetAmount.asset.symbol
              t == applyBalanceUpdate(State, u)
              old == Get(accountsData, k)
              new == Get(t.accountsData, k)
          IN  IsReady(accountsData, k) =>
                  /\ Get(new.balances, symbol) = u
                  /\ \A other \in Symbols \ {symbol} :
                        Get(new.balances, other) = Get(old.balances, other)
                  /\ new.ens = old.ens
                  /\ new.defaultName = old.defaultName
                  /\ new.defaultAvatar = old.defaultAvatar
                  /\ new.address = old.address /\ new.network = old.network
                  /\ Keys(t.accountsData) = Keys(accountsData)
                  /\ OthersUnchanged(accountsData, t.accountsData, k)
                  /\ t.names = availableDefaultNames
    /\ \A k \in AddrKeys :
          IsReady(accountsData, k) =>
              \A b \in Batches, symbol \in Symbols :
                  Cardinality(EntriesForSymbol(b, k, symbol)) > 1 =>
                      Get(Get(updateAccountBalance(State, b).accountsData, k).balances,
                          symbol)
                          = b[Latest(EntriesForSymbol(b, k, symbol))]

\* updateAccountBalance has run on a ready record that has ENS data and holds
\* two balances.
C9_Witness ==
    /\ last.op = "updateAccountBalance"
    /\ \E k \in DOMAIN last.pre :
          /\ last.pre[k] = "ready"
          /\ Get(accountsData, k).ens # <<>>
          /\ Len(Get(accountsData, k).balances) > 1

\* C10: newAccountData selects the name at index skip + (addressInt mod
\* (poolSize - skip)), skip = N mod poolSize; afterwards the selected name is at
\* the front of the pool and the other names keep their relative order.
C10_NewAccountDataSelection ==
    /\ BigInt(<<"2", "a">>) = 32 + 10 /\ BigInt(<<"1", "d">>) = 16 + 13
    /\ \A a \in AddrKeys, net \in Networks, n \in 0..MaxExisting :
          LET pool == availableDefaultNames
              poolSize == Len(pool)
              skip == n % poolSize
              index == skip + (BigInt(a) % (poolSize - skip))
              selected == pool[index + 1]
              created == newAccountData(pool, a, net, n)
          IN  /\ created.data.defaultName = selected
              /\ created.names[1] = selected
              /\ Tail(created.names) = SelectSeq(pool, LAMBDA x : x # selected)
    /\ last.op = "newAccountData" =>
          availableDefaultNames[1] = last.data.defaultName

\* newAccountData has run with names to skip and has selected a name further
\* back than the first eligible one.
C10_Witness ==
    /\ last.op = "newAccountData"
    /\ last.count % Len(availableDefaultNames) > 0
    /\ last.index > last.count % Len(availableDefaultNames)
    /\ availableDefaultNames[1] = last.data.defaultName

----------------------------------------------------------------------------
\* C11: however many records have been created from the fresh pool of eight
\* names -- the ninth after eight in particular -- the index newAccountData
\* selects lies inside the pool and the name it assigns is one of the eight
\* initial names: a creation never throws and never yields an undefined name.
C11_CreationStaysInsidePool ==
    /\ \A a \in AddrKeys, net \in Networks, n \in 0..MaxExisting :
           /\ defaultNameIndex(availableDefaultNames, a, n)
                  \in 0..(Len(availableDefaultNames) - 1)
           /\ LET created == newAccountData(availableDefaultNames, a, net, n)
              IN  /\ ~created.threw
                  /\ \E i \in 1..Len(InitialDefaultNames) :
                         created.data.defaultName = InitialDefaultNames[i]
    /\ last.op = "newAccountData" =>
           /\ ~last.threw
           /\ \E i \in 1..Len(InitialDefaultNames) :
                  last.data.defaultName = InitialDefaultNames[i]

\* The ninth record created after eight, named from the pool.
C11_Witness ==
    /\ last.op = "newAccountData"
    /\ last.count = Len(InitialDefaultNames)
    /\ dispatched = Len(InitialDefaultNames) + 1
    /\ ~last.threw
    /\ \E i \in 1..Len(InitialDefaultNames) :
           last.data.defaultName = InitialDefaultNames[i]

----------------------------------------------------------------------------
\* C12: in every reachable state the pool of default names holds exactly
\* eight entries and is a permutation of the eight initial names: no
\* sequence of identity generations loses or duplicates a name.
C12_PoolIsPermutation ==
    /\ Len(availableDefaultNames) = Len(InitialDefaultNames)
    /\ \A i \in 1..Len(InitialDefaultNames) :
           Cardinality({j \in 1..Len(availableDefaultNames) :
                           availableDefaultNames[j] = InitialDefaultNames[i]}) = 1

\* Nine generations done and the pool in another order than it started in.
C12_Witness ==
    /\ last.op = "newAccountData"
    /\ dispatched > Len(InitialDefaultNames)
    /\ availableDefaultNames # InitialDefaultNames
    /\ Len(availableDefaultNames) = Len(InitialDefaultNames)

----------------------------------------------------------------------------
\* The default name newAccountData would assign from the pool `names`.
NameFrom(names, a, n) ==
    newAccountData(names, a, CHOOSE net \in Networks : TRUE, n).data.defaultName

\* The pool one more creation call leaves behind.
PoolAfter(names, a, n) ==
    newAccountData(names, a, CHOOSE net \in Networks : TRUE, n).names

\* C14: the default name an address receives depends on the creations made
\* before it and not on the address alone: whatever creations have been made
\* so far, there is a further creation call after which some address,
\* created with some count of existing accounts, receives another name than
\* it would have received without that call -- two histories that give the
\* same address, with the same count, different names.
C14_NameDependsOnHistory ==
    \E a \in AddrKeys, n \in 0..MaxExisting :
        \E earlier \in AddrKeys, m \in 0..MaxExisting :
            NameFrom(availableDefaultNames, a, n)
                # NameFrom(PoolAfter(availableDefaultNames, earlier, m), a, n)

\* A creation that assigned another name than the same call assigns on the
\* fresh pool.
C14_Witness ==
    /\ last.op = "newAccountData"
    /\ dispatched > 1
    /\ last.data.defaultName # NameFrom(InitialDefaultNames, last.address, last.count)

----------------------------------------------------------------------------
\* C15: once an address has a ready record, no loadAccount,
\* updateAccountBalance, updateAccountName or updateENSAvatar -- for this
\* address or for another -- changes the record's defaultName or
\* defaultAvatar: every step other than a deleteAccount leaves each ready
\* record ready and with the identity it had.
C15_IdentityImmutable ==
    [][\A k \in AddrKeys :
          (/\ IsReady(accountsData, k)
           /\ last'.op \in {"loadAccount", "updateAccountBalance",
                             "updateAccountName", "updateENSAvatar"})
          => /\ IsReady(accountsData', k)
             /\ Get(accountsData', k).defaultName = Get(accountsData, k).defaultName
             /\ Get(accountsData', k).defaultAvatar = Get(accountsData, k).defaultAvatar
      ]_vars

\* A ready record that an updateAccountName found ready, with two records
\* ready in all.
C15_Witness ==
    /\ last.op = "updateAccountName"
    /\ \E k \in DOMAIN last.pre :
          /\ last.pre[k] = "ready"
          /\ IsReady(accountsData, k)
          /\ Has(Get(accountsData, k).ens, "name")
    /\ \A k \in AddrKeys : IsReady(accountsData, k)

----------------------------------------------------------------------------
\* Two addresses that differ at most in the case of their letters.
SameButCase(a1, a2) == toLowerCase(a1) = toLowerCase(a2)

\* The states t1 and t2 agree on everything but the spelling of the address
\* kept inside the stored balance payloads.
SameEntries(t1, t2) ==
    /\ t1.names = t2.names
    /\ t1.threw = t2.threw
    /\ t1.combinedData = t2.combinedData
    /\ [i \in 1..Len(t1.accountsData) |-> t1.accountsData[i].key]
           = [i \in 1..Len(t2.accountsData) |-> t2.accountsData[i].key]
    /\ \A k \in Keys(t1.accountsData) :
           LET d1 == Get(t1.accountsData, k)
               d2 == Get(t2.accountsData, k)
           IN  IF d1 = Loading \/ d2 = Loading THEN d1 = d2
               ELSE /\ [d1 EXCEPT !.balances = <<>>] = [d2 EXCEPT !.balances = <<>>]
                    /\ Len(d1.balances) = Len(d2.balances)
                    /\ \A i \in 1..Len(d1.balances) :
                           /\ d1.balances[i].key = d2.balances[i].key
                           /\ d1.balances[i].value.assetAmount
                                  = d2.balances[i].value.assetAmount
                           /\ SameButCase(d1.balances[i].value.address,
                                          d2.balances[i].value.address)

\* C16: accountsData has exactly one entry per normalized address: every
\* key is in lowercase form, no key occurs twice, a ready record carries its
\* key as its address, and each of the five reducers, given two addresses
\* that differ only in letter case, acts on the same single entry.
C16_OneEntryPerNormalizedAddress ==
    /\ \A i \in 1..Len(accountsData) :
           /\ accountsData[i].key = toLowerCase(accountsData[i].key)
           /\ accountsData[i].value # Loading
                  => accountsData[i].value.address = accountsData[i].key
    /\ Cardinality(Keys(accountsData)) = Len(accountsData)
    /\ \A a1 \in AddrInputs, a2 \in AddrInputs :
           SameButCase(a1, a2) =>
               /\ loadAccount(State, a1) = loadAccount(State, a2)
               /\ deleteAccount(State, a1) = deleteAccount(State, a2)
               /\ \A u \in AccountBalances :
                      u.address = a1 =>
                          SameEntries(updateAccountBalance(State, <<u>>),
                                      updateAccountBalance(
                                          State, <<[u EXCEPT !.address = a2]>>))
               /\ \A p \in NamePayloads :
                      p.address = a1 =>
                          updateAccountName(State, p)
                              = updateAccountName(State, [p EXCEPT !.address = a2])
               /\ \A p \in AvatarPayloads :
                      p.address = a1 =>
                          updateENSAvatar(State, p)
                              = updateENSAvatar(State, [p EXCEPT !.address = a2])

\* One record that took a balance under its lowercase address and another
\* balance under the same address written in upper case.
C16_Witness ==
    /\ last.op = "updateAccountBalance"
    /\ Len(accountsData) = 1
    /\ \E k \in AddrKeys :
          /\ IsReady(accountsData, k)
          /\ \E s1 \in Symbols, s2 \in Symbols :
                /\ Has(Get(accountsData, k).balances, s1)
                /\ Has(Get(accountsData, k).balances, s2)
                /\ Get(Get(accountsData, k).balances, s1).address = k
                /\ Get(Get(accountsData, k).balances, s2).address # k

----------------------------------------------------------------------------
\* Whether some ready record of accounts holds a balance of `symbol`.
HeldByReady(accounts, symbol) ==
    \E i \in 1..Len(accounts) :
        /\ accounts[i].value # Loading
        /\ Has(accounts[i].value.balances, symbol)

\* C18: after updateAccountBalance, combinedData.assets has exactly one
\* entry for each asset symbol that at least one ready record holds, and no
\* entry for any other symbol; an address still "loading" contributes
\* nothing.
C18_OneEntryPerHeldSymbol ==
    last.op = "updateAccountBalance" =>
        /\ \A i \in 1..Len(combinedData.assets) :
               combinedData.assets[i].asset.symbol \in Symbols
        /\ \A symbol \in Symbols :
               Cardinality({i \in 1..Len(combinedData.assets) :
                               combinedData.assets[i].asset.symbol = symbol})
                   = IF HeldByReady(accountsData, symbol) THEN 1 ELSE 0

\* Two ready records holding the same symbol and nobody holding the other:
\* one listed entry.
C18_Witness ==
    /\ last.op = "updateAccountBalance"
    /\ \A k \in AddrKeys : IsReady(accountsData, k)
    /\ \E symbol \in Symbols :
          /\ \A k \in AddrKeys : Has(Get(accountsData, k).balances, symbol)
          /\ \E other \in Symbols \ {symbol} : ~HeldByReady(accountsData, other)
    /\ Len(combinedData.assets) = 1

----------------------------------------------------------------------------
\* C17: no operation of the account slice (loadAccount, deleteAccount,
\* updateAccountBalance, updateAccountName, updateENSAvatar) raises an
\* error, in any reachable state and for any payload, a payload for whose
\* address a record has to be materialised included.
C17_NoOperationRaises == ~last.threw

----------------------------------------------------------------------------
\* The record the round trip of Transfer(from, to, amount) is to give.
TransferOf(contractAddress, from, to, amount) ==
    [contractAddress |-> contractAddress, amount |-> amount,
     senderAddress |-> from, recipientAddress |-> to]

\* C19: round trip.  For every sender, recipient and amount, a log whose
\* topics and data are the ERC-20 Transfer encoding of (from, to, amount)
\* is parsed by parseLogsForERC20Transfers into a record with senderAddress
\* = from, recipientAddress = to and amount the same integer -- on its own,
\* and wherever it stands in a list of logs.
C19_TransferRoundTrip ==
    /\ \A c \in ContractAddresses, from \in LogAddresses, to \in LogAddresses,
          amount \in TransferAmounts :
           parseLogsForERC20Transfers(<<EVMLogOf(c, EncodeTransfer(from, to, amount))>>)
               = [threw |-> FALSE, value |-> <<TransferOf(c, from, to, amount)>>]
    /\ transfers.called =>
           \A i \in 1..Len(logs) :
              \A from \in LogAddresses, to \in LogAddresses, amount \in TransferAmounts :
                  logs[i] = EVMLogOf(logs[i].contractAddress,
                                     EncodeTransfer(from, to, amount))
                  => \E j \in 1..Len(transfers.value) :
                        transfers.value[j]
                            = TransferOf(logs[i].contractAddress, from, to, amount)

\* The log of Transfer(0xaa.., 0xbb.., 1000) parsed into that transfer.
C19_Witness ==
    /\ transfers.called
    /\ Len(logs) = 1
    /\ \E c \in ContractAddresses :
          /\ logs[1] = EVMLogOf(c, EncodeTransfer([i \in 1..AddrLen |-> 170],
                                                  [i \in 1..AddrLen |-> 187], 1000))
          /\ transfers.value = <<TransferOf(c, [i \in 1..AddrLen |-> 170],
                                            [i \in 1..AddrLen |-> 187], 1000)>>

----------------------------------------------------------------------------
\* Whether decoding the log as a Transfer event succeeds.
Decodable(log) == decodeEventLog("Transfer", log.data, log.topics) # Threw

\* C20: parseLogsForERC20Transfers never raises: a log whose decoding
\* throws is dropped from the output, and the other logs of the same call
\* are still parsed and returned -- the output has one record for each
\* decodable log, in their order and with their contract addresses, and
\* none for an undecodable one.
C20_UndecodableLogsDropped ==
    transfers.called =>
        /\ ~transfers.threw
        /\ LET kept == SelectSeq(logs, Decodable)
           IN  /\ Len(transfers.value) = Len(kept)
               /\ \A j \in 1..Len(kept) :
                      /\ transfers.value[j].contractAddress = kept[j].contractAddress
                      /\ transfers.value[j].amount = UintOf(kept[j].data)

\* An undecodable log in front of a Transfer log: one transfer returned.
C20_Witness ==
    /\ transfers.called
    /\ ~transfers.threw
    /\ Len(logs) = 2
    /\ logs[1] \in UndecodableLogs
    /\ logs[2] \in TransferLogs
    /\ Len(transfers.value) = 1
    /\ transfers.value[1].contractAddress = logs[2].contractAddress

----------------------------------------------------------------------------
\* The strictly increasing maps from the positions 1..n into 1..m.
Embeddings(n, m) ==
    {f \in [1..n -> 1..m] : \A i \in 1..n, j \in 1..n : i < j => f[i] < f[j]}

\* C21: the output of parseLogsForERC20Transfers is an order-preserving
\* subsequence of its input: it is never longer than the input, every
\* element is a transfer record (a dropped log leaves no placeholder), and
\* the records can be matched to input logs at increasing positions such
\* that each record is what its own log parses to and carries that log's
\* contractAddress.
C21_OutputIsSubsequence ==
    transfers.called =>
        /\ Len(transfers.value) <= Len(logs)
        /\ \A j \in 1..Len(transfers.value) :
               /\ transfers.value[j] # Undefined
               /\ DOMAIN transfers.value[j]
                      = {"contractAddress", "amount", "senderAddress", "recipientAddress"}
        /\ \E f \in Embeddings(Len(transfers.value), Len(logs)) :
               \A j \in 1..Len(transfers.value) :
                   /\ transfers.value[j].contractAddress = logs[f[j]].contractAddress
                   /\ transfers.value[j].amount = UintOf(logs[f[j]].data)
                   /\ Len(logs[f[j]].topics) >= 3
                   /\ ZeroPad(transfers.value[j].senderAddress, WordLen)
                          = logs[f[j]].topics[2]
                   /\ ZeroPad(transfers.value[j].recipientAddress, WordLen)
                          = logs[f[j]].topics[3]

\* Two Transfer logs of different contracts and amounts, returned in the
\* order they came in.
C21_Witness ==
    /\ transfers.called
    /\ Len(logs) = 2
    /\ Len(transfers.value) = 2
    /\ logs[1].contractAddress # logs[2].contractAddress
    /\ logs[1].data # logs[2].data
    /\ transfers.value[1].contractAddress = logs[1].contractAddress
    /\ transfers.value[2].contractAddress = logs[2].contractAddress

----------------------------------------------------------------------------
\* Whether the data is a well-formed call of a function of the interface.
WellFormedCall(interface, data) ==
    /\ data.selector \in (interface \ ERC20_EVENTS)
    /\ Len(data.words) >= InputsOf(data.selector)

\* C22: parseERC20Tx decodes call data against the ERC-20 interface
\* together with the ERC-2612 permit interface: a well-formed call of any
\* of their functions -- permit among them -- is returned as a transaction
\* description; and on data it cannot decode it returns undefined without
\* raising.
C22_ParsesAgainstPermitInterface ==
    description.called =>
        /\ ~description.threw
        /\ IF WellFormedCall(ERC2612_INTERFACE, input)
           THEN /\ description.value # Undefined
                /\ description.value.name = input.selector
           ELSE description.value = Undefined


\* The payloads updateKeyrings is checked with: every list of at most
\* MaxImports distinct keyrings, the empty one included.
KeyringLists ==
    {<<>>} \cup {<<KeyringOf(i)>> : i \in 1..MaxImports}
           \cup {<<KeyringOf(i), KeyringOf(j)>> : i, j \in 1..MaxImports}

\* C23: updateKeyrings with an empty list while the status is "locked"
\* returns the state as it was, keyrings and keyringMetadata included; with
\* any other payload or status it takes keyrings and keyringMetadata from
\* the payload and keeps status, importing and keyringToVerify.
C23_UpdateKeyringsFrame ==
    \A keyrings \in KeyringLists :
        LET payload == KeyringsPayload(keyrings)
            t == updateKeyrings(keyringsState, payload)
        IN  IF Len(keyrings) = 0 /\ keyringsState.status = "locked"
            THEN t = keyringsState
            ELSE /\ t.keyrings = payload.keyrings
                 /\ t.keyringMetadata = payload.keyringMetadata
                 /\ t.status = keyringsState.status
                 /\ t.importing = keyringsState.importing
                 /\ t.keyringToVerify = keyringsState.keyringToVerify

\* An updateKeyrings was reduced while the slice was locked and knew a
\* keyring, with an import pending and a keyring to verify.
C23_Witness ==
    /\ lastKeyringEvent.type = "keyrings/updateKeyrings"
    /\ keyringsState.status = "locked"
    /\ Len(keyringsState.keyrings) > 0
    /\ keyringsState.importing = "pending"
    /\ keyringsState.keyringToVerify # Null

\* C24: a fulfilled importKeyring has selected the first address of the
\* keyring that very import added.
C24_SelectsImportedKeyring ==
    \A i \in 1..MaxImports :
        thunks[i].pc = "fulfilled" => thunks[i].selected = KeyringOf(i).addresses[1]

\* The part of C24 that holds: setNewSelectedAccount is dispatched only once
\* every handler has completed, with the first address of the last keyring
\* of the state at that moment.
SelectsAfterHandlers ==
    [][\A i \in 1..MaxImports :
          (thunks[i].pc # "fulfilled" /\ thunks'[i].pc = "fulfilled")
          => /\ thunks[i].running = {}
             /\ Len(keyringsState.keyrings) > 0
             /\ selectedAccount' =
                   keyringsState.keyrings[Len(keyringsState.keyrings)].addresses[1]
      ]_vars

\* C27: once both actions of a lock have been reduced, the slice still has
\* the keyrings and keyringMetadata it had before the lock.
C27_LockKeepsKeyrings ==
    (lockSnapshot # Null /\ inFlight = {})
    => /\ keyringsState.keyrings = lockSnapshot.keyrings
       /\ keyringsState.keyringMetadata = lockSnapshot.keyringMetadata

\* C28: when an importKeyring settles, fulfilled or rejected, importing is
\* "done" and keyringToVerify is null.
C28_ImportEndsDone ==
    lastKeyringEvent.type \in {"fulfilled", "rejected"}
    => /\ keyringsState.importing = "done"
       /\ keyringsState.keyringToVerify = Null

----------------------------------------------------------------------------
\* C25: with at most 8 addresses tracked, no two ready records have the
\* same defaultName.
C25_DefaultNamesUnique ==
    Len(accountsData) <= 8 =>
        \A i, j \in 1..Len(accountsData) :
            (/\ i # j
             /\ accountsData[i].value # Loading
             /\ accountsData[j].value # Loading)
            => accountsData[i].value.defaultName # accountsData[j].value.defaultName

----------------------------------------------------------------------------
UpdateOps == {"updateAccountBalance", "updateAccountName", "updateENSAvatar"}

\* C26: a step of updateAccountBalance, updateAccountName or updateENSAvatar
\* leaves the keys of accountsData as they were, and when every address of
\* its payload was untracked it leaves accountsData and the pool of default
\* names as they were; a step of loadAccount adds its key and removes none,
\* a step of deleteAccount removes its key and adds none.
C26_OnlyLoadAndDeleteChangeKeys ==
    [][/\ last'.op \in UpdateOps =>
            /\ Keys(accountsData') = Keys(accountsData)
            /\ (\A k \in DOMAIN last'.pre : last'.pre[k] = "absent")
                   => /\ accountsData' = accountsData
                      /\ availableDefaultNames' = availableDefaultNames
       /\ last'.op = "loadAccount" =>
            Keys(accountsData') = Keys(accountsData) \cup DOMAIN last'.pre
       /\ last'.op = "deleteAccount" =>
            Keys(accountsData') = Keys(accountsData) \ DOMAIN last'.pre
      ]_vars

\* An ENS avatar update ran for an address that was not tracked, while
\* another address was, and the address is still not tracked.
C26_Witness ==
    /\ last.op = "updateENSAvatar"
    /\ \E k \in DOMAIN last.pre : last.pre[k] = "absent" /\ ~Has(accountsData, k)
    /\ Len(accountsData) > 0

----------------------------------------------------------------------------
\* Whether `effect` is among the effects of a call.
Did(call, effect) == \E n \in 1..Len(call.effects) : call.effects[n] = effect

\* C29: a call of sendTransactionRequest that dispatches transferAsset has
\* set isSendingTransactionRequest to true just before; when the dispatch
\* settles, resolved or rejected, the flag is false again; history is pushed
\* to /singleAsset only by a call whose dispatch resolved, after the flag
\* was reset; a call made while assetAmount or destinationAddress is
\* undefined dispatches nothing and changes neither flag nor location.
C29_SendingFlagAndNavigation ==
    [][\A i \in 1..MaxSends :
          /\ (calls[i].pc = "idle" /\ calls'[i].pc # "idle")
             => IF sendForm.assetAmount = Undefined
                   \/ sendForm.destinationAddress = Undefined
                THEN /\ calls'[i].pc = "returned"
                     /\ calls'[i].effects = <<>>
                     /\ UNCHANGED <<isSendingTransactionRequest, location>>
                ELSE /\ calls'[i].pc = "awaiting"
                     /\ calls'[i].effects = <<"setIsSendingTransactionRequest(true)",
                                              "dispatch(transferAsset)">>
                     /\ isSendingTransactionRequest'
          /\ (calls[i].pc = "awaiting" /\ calls'[i].pc # "awaiting")
             => /\ ~isSendingTransactionRequest'
                /\ calls'[i].effects[3] = "setIsSendingTransactionRequest(false)"
                /\ Did(calls'[i], "history.push(/singleAsset)")
                       <=> calls'[i].pc = "resolved"
          /\ location' # location
             => \E j \in 1..MaxSends :
                   calls[j].pc = "awaiting" /\ calls'[j].pc = "resolved"
      ]_vars

\* One call returned early, one was rejected and one resolved and navigated.
C29_Witness ==
    /\ \E i \in 1..MaxSends : calls[i].pc = "returned"
    /\ \E i \in 1..MaxSends : calls[i].pc = "rejected"
    /\ \E i \in 1..MaxSends : calls[i].pc = "resolved"
    /\ location = "/singleAsset"
    /\ ~isSendingTransactionRequest

\* C30: onCurrentAddressChange(a) is called only when a is the pending
\* selection and the store's selected address; the step clears the pending
\* selection; every call of it is for the latest updateCurrentAccount call,
\* no two for the same one, so an address selected and then superseded
\* before the store adopted it is never reported.
C30_CallbackForAdoptedSelection ==
    [][/\ callbacks' # callbacks
          => /\ callbacks' = Append(callbacks, [address |-> pendingSelectedAddress,
                                                call |-> Len(selections)])
             /\ pendingSelectedAddress # ""
             /\ pendingSelectedAddress = selectedAccountAddress
             /\ selectedAccountAddress' = selectedAccountAddress
             /\ pendingSelectedAddress' = ""
             /\ Len(selections) > 0
             /\ selections[Len(selections)].address = pendingSelectedAddress
             /\ \A n \in 1..Len(callbacks) : callbacks[n].call < Len(selections)
       /\ Len(callbacks') <= Len(selections')
      ]_vars

\* A second address was selected before the store adopted the first; the
\* store has adopted both and the callback was called for the second only.
C30_Witness ==
    /\ selections = <<[address |-> "0x2a", unadopted |-> 0],
                      [address |-> "0x3c", unadopted |-> 1]>>
    /\ selecting = <<>>
    /\ selectedAccountAddress = "0x3c"
    /\ callbacks = <<[address |-> "0x3c", call |-> 2]>>
    /\ pendingSelectedAddress = ""

====
